---- MODULE Spec2Model ----
(***************************************************************************)
(* Model of the NodeVisualization component of ocp-console-plugin          *)
(* (src/unnamed/part_000): the React Flow strategy (lines 136-420: graph   *)
(* builder effect, getFlowPath, popover / highlight handlers) and the      *)
(* manual layered strategy (lines 434-673: node positions and connectors). *)
(*                                                                         *)
(* Strings model JavaScript strings; the empty string "" stands for an     *)
(* absent (undefined) optional field, which the code only ever tests for   *)
(* truthiness (`if (master)`, `a || b`).                                   *)
(***************************************************************************)
EXTENDS Naturals, Sequences, FiniteSets, TLC

VARIABLES
    strategy,          \* which of the two NodeVisualization components is mounted
    props,             \* the props handed to the component (nns, cudns) with their identities
    lastDeps,          \* dependency array of the previous render's useEffect
    renderPending,     \* a render is scheduled (mount, props change or state change)
    effectPending,     \* the useEffect of the last render is scheduled
    shown,             \* the last render returned the <ReactFlow> tree (interfaces.length > 0)
    nodes,             \* useNodesState
    edges,             \* useEdgesState
    activeNode,        \* useState: popover subject
    anchorElement,     \* useState: popover anchor
    highlightedPath,   \* useState: Set<string>
    isHighlightActive, \* useState: boolean
    selectedId,        \* history: node.id of the last onNodeClick
    dirty,             \* history: an input collection changed since the last effect run
    propChanges,       \* history: number of props changes so far
    svg,               \* output of the manual layered component's last render
    flowStart,         \* argument of the last direct getFlowPath call
    flowResult,        \* result of the last direct getFlowPath call
    flowEntered        \* history: the nodes the traversals of that call entered, in order

vars == <<strategy, props, lastDeps, renderPending, effectPending, shown, nodes, edges,
          activeNode, anchorElement, highlightedPath, isHighlightActive, selectedId,
          dirty, propChanges, svg, flowStart, flowResult, flowEntered>>

(***************************************************************************)
(* Bounds of the model.                                                    *)
(***************************************************************************)
MaxIfaces == 2

MaxMappings == 1

MaxCudns == 1

MaxRecords == 3

MaxPropChanges == 2

(***************************************************************************)
(* Input universes.                                                        *)
(***************************************************************************)
\* Interface names.  "ovn-a" is a legal interface name that coincides with the
\* synthesized id of the mapping of localnet "a" and with the id of an edge
\* from "ovn" to "a".
IfaceNames == {"ovn", "a", "ovn-a"}

IfaceTypes == {"ethernet", "ovs-bridge", "ovs-interface", "vlan"}

\* InterfaceRecord as read by the code: name, type, controller, master, patch,
\* vlan['base-iface'], ['mac-vlan']['base-iface'].
Ifaces ==
    { [name |-> n, type |-> t, controller |-> c, master |-> m, patch |-> p,
       vlanBase |-> vb, macVlanBase |-> ""] :
         n \in IfaceNames, t \in IfaceTypes, c \in {"", "a", "ovn"}, m \in {"", "a"},
         p \in BOOLEAN, vb \in {"", "a"} }

\* Records as nmstate reports them: patch only on an ovs-interface, a vlan
\* section exactly on a vlan.  A record giving controller and master the same
\* value is read by the code exactly as one giving controller alone, so only
\* differing pairs are enumerated.
WellFormedIface(i) ==
    /\ i.patch => i.type = "ovs-interface"
    /\ (i.vlanBase # "") <=> (i.type = "vlan")
    /\ (i.master # "" /\ i.controller # "") => i.controller # i.master

IfaceUniverse == { i \in Ifaces : WellFormedIface(i) }

\* BridgeMapping: localnet, bridge ("" when absent).  Bridge "a" dangles when no
\* interface is named "a".
MappingUniverse == [localnet : {"a"}, bridge : {"", "a"}]

\* status.conditions[].message as a sequence of characters.
MsgTwoNamespaces == <<"[", "b", ",", " ", "a", "]">>

NoConditions == <<>>

ConditionsUniverse ==
    { NoConditions,
      << [type |-> "NetworkCreated", status |-> "True", message |-> MsgTwoNamespaces] >> }

\* ClusterUserDefinedNetwork: metadata.name, spec.network.localNet.physicalNetworkName,
\* spec.network.localnet.physicalNetworkName, status.conditions.  The physical
\* network "a" dangles when there is no mapping of localnet "a".
CudnUniverse ==
    [name : {"a"}, localNetName : {"", "a"}, localnetName : {""},
     conditions : ConditionsUniverse]

RECURSIVE SeqsUpTo(_, _)
SeqsUpTo(S, n) ==
    IF n = 0 THEN { <<>> }
    ELSE LET shorter == SeqsUpTo(S, n - 1)
         IN  shorter \cup { Append(s, x) : s \in { t \in shorter : Len(t) = n - 1 }, x \in S }

\* Interface names are unique within a node's interface set.
UniqueNames(ifs) == \A i, j \in 1..Len(ifs) : ifs[i].name = ifs[j].name => i = j

InterfaceLists(max) == { ifs \in SeqsUpTo(IfaceUniverse, max) : UniqueNames(ifs) }

MappingLists(max) == SeqsUpTo(MappingUniverse, max)

CudnLists(max) == SeqsUpTo(CudnUniverse, max)

(***************************************************************************)
(* JavaScript helpers.                                                     *)
(***************************************************************************)
\* Truthiness of an optional string.
Truthy(s) == s # ""

\* a || b on optional strings.
Or(a, b) == IF Truthy(a) THEN a ELSE b

(***************************************************************************)
(* Derived collections (React Flow component lines 136, 146-148; manual    *)
(* component lines 434-437).                                               *)
(***************************************************************************)
\* nns?.status?.currentState?.interfaces || []
interfaces == props.nns.interfaces

\* ovn['bridge-mappings'] || []
bridgeMappings == IF props.nns.hasMappings THEN props.nns.mappings ELSE <<>>

\* cudns = [] (default parameter)
cudns == IF props.cudns.given THEN props.cudns.items ELSE <<>>

(***************************************************************************)
(* Graph builder: the body of the useEffect, lines 150-260.                *)
(***************************************************************************)
NoOriginal == [kind |-> "none"]

\* addNode pushes; it does not look for an existing node of the same id.
addNode(initialNodes, id, label, type, original, namespaces) ==
    Append(initialNodes,
           [id |-> id, label |-> label, type |-> type, original |-> original,
            namespaces |-> namespaces, position |-> "origin"])

\* addEdge pushes; it looks at neither the node list nor the edge list.
addEdge(initialEdges, source, target, animated) ==
    Append(initialEdges,
           [id |-> source \o "-" \o target, source |-> source, target |-> target,
            animated |-> animated])

BridgeTypes == {"linux-bridge", "ovs-bridge"}

\* interfaces.some(i => i.controller === iface.name || i.master === iface.name)
isController(iface, allInterfaces) ==
    \E k \in 1..Len(allInterfaces) :
        \/ allInterfaces[k].controller = iface.name
        \/ allInterfaces[k].master = iface.name

\* Lines 195-202: the type handed to addNode for an interface.
NodeTypeOf(iface, allInterfaces) ==
    IF iface.type \in BridgeTypes THEN "bridge"
    ELSE IF iface.type = "ovs-interface"
         THEN IF isController(iface, allInterfaces) /\ ~iface.patch THEN "bridge" ELSE "logical"
         ELSE iface.type

\* iface.vlan?.['base-iface'] || iface['mac-vlan']?.['base-iface']
BaseIfaceOf(iface) == Or(iface.vlanBase, iface.macVlanBase)

\* One iteration of interfaces.forEach (lines 194-213) on the accumulated graph.
InterfaceStep(g, iface, allInterfaces) ==
    LET n1 == addNode(g.nodes, iface.name, iface.name, NodeTypeOf(iface, allInterfaces),
                      iface, <<>>)
        master == Or(iface.controller, iface.master)
        e1 == IF Truthy(master) THEN addEdge(g.edges, iface.name, master, FALSE) ELSE g.edges
        baseIface == BaseIfaceOf(iface)
        e2 == IF Truthy(baseIface) THEN addEdge(e1, baseIface, iface.name, FALSE) ELSE e1
    IN  [nodes |-> n1, edges |-> e2]

\* One iteration of bridgeMappings.forEach (lines 216-220).
MappingStep(g, mapping) ==
    LET ovnNodeId == "ovn-" \o mapping.localnet
        n1 == addNode(g.nodes, ovnNodeId, "OVN: " \o mapping.localnet, "ovn-mapping",
                      mapping, <<>>)
        e1 == IF Truthy(mapping.bridge) THEN addEdge(g.edges, mapping.bridge, ovnNodeId, FALSE)
              ELSE g.edges
    IN  [nodes |-> n1, edges |-> e1]

\* cudn.spec?.network?.localNet?.physicalNetworkName || cudn.spec?.network?.localnet?.physicalNetworkName
PhysicalNetworkNameOf(cudn) == Or(cudn.localNetName, cudn.localnetName)

\* One iteration of the first cudns.forEach (lines 223-232).
CudnStep(g, cudn) ==
    LET cudnNodeId == "cudn-" \o cudn.name
        n1 == addNode(g.nodes, cudnNodeId, cudn.name, "cudn", cudn, <<>>)
        physicalNetworkName == PhysicalNetworkNameOf(cudn)
        e1 == IF Truthy(physicalNetworkName)
              THEN addEdge(g.edges, "ovn-" \o physicalNetworkName, cudnNodeId, FALSE)
              ELSE g.edges
    IN  [nodes |-> n1, edges |-> e1]

(***************************************************************************)
(* Attachment pass, lines 235-249.  A message is a sequence of characters. *)
(***************************************************************************)
\* UTF-16 code units of the characters used in messages.
CharCode(c) ==
    CASE c = " " -> 32
      [] c = "," -> 44
      [] c = "[" -> 91
      [] c = "]" -> 93
      [] c = "a" -> 97
      [] c = "b" -> 98
      [] c = "c" -> 99
      [] c = "d" -> 100

\* Positions of a character in a message.
IndexesOf(msg, c) == { i \in 1..Len(msg) : msg[i] = c }

Min(S) == CHOOSE x \in S : \A y \in S : x <= y

\* condition.message.match(/\[(.*?)\]/): the leftmost "[" and the first "]" after
\* it; the result is [found, group] with group the text between the two.
MatchBracket(msg) ==
    LET opens == IndexesOf(msg, "[")
    IN  IF opens = {} THEN [found |-> FALSE, group |-> <<>>]
        ELSE LET i == Min(opens)
                 closes == { j \in IndexesOf(msg, "]") : j > i }
             IN  IF closes = {} THEN [found |-> FALSE, group |-> <<>>]
                 ELSE [found |-> TRUE, group |-> SubSeq(msg, i + 1, Min(closes) - 1)]

\* String.prototype.split(','): always at least one piece.
RECURSIVE Split(_)
Split(s) ==
    LET commas == IndexesOf(s, ",")
    IN  IF commas = {} THEN << s >>
        ELSE LET k == Min(commas)
             IN  << SubSeq(s, 1, k - 1) >> \o Split(SubSeq(s, k + 1, Len(s)))

\* String.prototype.trim() for the blank character.
RECURSIVE Trim(_)
Trim(s) ==
    IF s = <<>> THEN s
    ELSE IF Head(s) = " " THEN Trim(Tail(s))
    ELSE IF s[Len(s)] = " " THEN Trim(SubSeq(s, 1, Len(s) - 1))
    ELSE s

\* a < b in JavaScript's default sort order (code units, a proper prefix first).
RECURSIVE StrLess(_, _)
StrLess(a, b) ==
    IF b = <<>> THEN FALSE
    ELSE IF a = <<>> THEN TRUE
    ELSE IF CharCode(Head(a)) # CharCode(Head(b)) THEN CharCode(Head(a)) < CharCode(Head(b))
    ELSE StrLess(Tail(a), Tail(b))

\* Insertion of x into a sorted sequence, after its equals.
RECURSIVE InsertSorted(_, _)
InsertSorted(sorted, x) ==
    IF sorted = <<>> THEN << x >>
    ELSE IF StrLess(x, Head(sorted)) THEN << x >> \o sorted
    ELSE << Head(sorted) >> \o InsertSorted(Tail(sorted), x)

\* Array.prototype.sort() without a comparator.
RECURSIVE Sort(_)
Sort(s) == IF s = <<>> THEN <<>> ELSE InsertSorted(Sort(SubSeq(s, 1, Len(s) - 1)), s[Len(s)])

\* The JavaScript string spelled by a sequence of characters.
RECURSIVE Str(_)
Str(chars) == IF chars = <<>> THEN "" ELSE Head(chars) \o Str(Tail(chars))

\* Array.prototype.join(', ') on strings.
RECURSIVE Join(_)
Join(strs) ==
    IF strs = <<>> THEN ""
    ELSE IF Len(strs) = 1 THEN strs[1]
    ELSE strs[1] \o ", " \o Join(Tail(strs))

\* match[1].split(',').map(ns => ns.trim()).sort()
ParseNamespaces(group) ==
    LET pieces == Split(group)
        trimmed == [k \in 1..Len(pieces) |-> Trim(pieces[k])]
        sorted == Sort(trimmed)
    IN  [k \in 1..Len(sorted) |-> Str(sorted[k])]

\* cudn.status?.conditions?.find(c => c.type === 'NetworkCreated' && c.status === 'True')
FindCondition(conditions) ==
    LET hits == { k \in 1..Len(conditions) :
                    conditions[k].type = "NetworkCreated" /\ conditions[k].status = "True" }
    IN  IF hits = {} THEN [found |-> FALSE, message |-> <<>>]
        ELSE [found |-> TRUE, message |-> conditions[Min(hits)].message]

\* Line 243: the label of an attachment node.
AttachmentLabel(namespaces) ==
    "NS: " \o (IF Len(namespaces) > 3 THEN Join(SubSeq(namespaces, 1, 3)) \o "..."
               ELSE Join(namespaces))

\* One iteration of the second cudns.forEach (lines 235-249).
AttachmentStep(g, cudn) ==
    LET condition == FindCondition(cudn.conditions)
        match == MatchBracket(condition.message)
    IN  IF condition.found /\ condition.message # <<>> /\ match.found /\ match.group # <<>>
        THEN LET namespaces == ParseNamespaces(match.group)
             IN  IF Len(namespaces) > 0
                 THEN LET attachmentNodeId == "attachment-" \o cudn.name
                      IN  [nodes |-> addNode(g.nodes, attachmentNodeId,
                                             AttachmentLabel(namespaces), "attachment",
                                             NoOriginal, namespaces),
                           edges |-> addEdge(g.edges, "cudn-" \o cudn.name,
                                             attachmentNodeId, TRUE)]
                 ELSE g
        ELSE g

(***************************************************************************)
(* The four passes and the layout call.                                    *)
(***************************************************************************)
RECURSIVE InterfacesPass(_, _, _)
InterfacesPass(g, k, allInterfaces) ==
    IF k > Len(allInterfaces) THEN g
    ELSE InterfacesPass(InterfaceStep(g, allInterfaces[k], allInterfaces), k + 1, allInterfaces)

RECURSIVE MappingsPass(_, _, _)
MappingsPass(g, k, mappings) ==
    IF k > Len(mappings) THEN g
    ELSE MappingsPass(MappingStep(g, mappings[k]), k + 1, mappings)

RECURSIVE CudnsPass(_, _, _)
CudnsPass(g, k, cs) ==
    IF k > Len(cs) THEN g ELSE CudnsPass(CudnStep(g, cs[k]), k + 1, cs)

RECURSIVE AttachmentsPass(_, _, _)
AttachmentsPass(g, k, cs) ==
    IF k > Len(cs) THEN g ELSE AttachmentsPass(AttachmentStep(g, cs[k]), k + 1, cs)

\* getLayoutedElements (lines 101-134): dagre gives every node of the list a
\* position (dagreGraph.node(node.id) exists for every node set at line 109) and
\* returns the same node and edge lists.  The coordinates dagre computes are
\* abstracted to the marker "dagre".
getLayoutedElements(ns, es) ==
    [nodes |-> [k \in 1..Len(ns) |-> [ns[k] EXCEPT !.position = "dagre"]],
     edges |-> es]

\* initialNodes / initialEdges after the four passes (lines 151-249).
BuildGraph(ifs, mappings, cs) ==
    LET g0 == [nodes |-> <<>>, edges |-> <<>>]
        g1 == InterfacesPass(g0, 1, ifs)
        g2 == MappingsPass(g1, 1, mappings)
        g3 == CudnsPass(g2, 1, cs)
    IN  AttachmentsPass(g3, 1, cs)

(***************************************************************************)
(* Reachability highlighter: getFlowPath, lines 263-289.                   *)
(***************************************************************************)
RECURSIVE traverse(_, _, _, _)
RECURSIVE TraverseEdges(_, _, _, _, _)
RECURSIVE TraverseEdgesCopiesVisited(_, _, _, _, _)

\* traverse(nodeId, direction) on the closure state st = [path, visited, entered].
\* entered logs each execution of lines 269-270 (the call got past the visited
\* check) as <<direction, nodeId>>.
traverse(nodeId, direction, st, es) ==
    IF nodeId \in st.visited THEN st
    ELSE LET entered == [path |-> st.path \cup {nodeId},
                         visited |-> st.visited \cup {nodeId},
                         entered |-> Append(st.entered, <<direction, nodeId>>)]
             Connected(edge) == IF direction = "upstream" THEN edge.target = nodeId
                                ELSE edge.source = nodeId
             connectedEdges == SelectSeq(es, Connected)
         IN  TraverseEdges(connectedEdges, 1, direction, entered, es)

\* A variant of the forEach in which every recursive call works on a copy of
\* visited, so that what one branch visited is unknown to the next branch.
TraverseEdgesCopiesVisited(connectedEdges, k, direction, st, es) ==
    IF k > Len(connectedEdges) THEN st
    ELSE LET edge == connectedEdges[k]
             nextNodeId == IF direction = "upstream" THEN edge.source ELSE edge.target
             added == [st EXCEPT !.path = st.path \cup {edge.id}]
             branch == traverse(nextNodeId, direction, added, es)
         IN  TraverseEdgesCopiesVisited(connectedEdges, k + 1, direction,
                                        [branch EXCEPT !.visited = st.visited], es)

\* connectedEdges.forEach(edge => { path.add(edge.id); traverse(next, direction) })
TraverseEdges(connectedEdges, k, direction, st, es) ==
    IF k > Len(connectedEdges) THEN st
    ELSE LET edge == connectedEdges[k]
             nextNodeId == IF direction = "upstream" THEN edge.source ELSE edge.target
             added == [st EXCEPT !.path = st.path \cup {edge.id}]
         IN  TraverseEdges(connectedEdges, k + 1, direction,
                           traverse(nextNodeId, direction, added, es), es)

\* The body of getFlowPath (lines 264-286): the closure state when it returns.
getFlowPathRun(startNodeId, es) ==
    LET up == traverse(startNodeId, "upstream",
                       [path |-> {}, visited |-> {}, entered |-> <<>>], es)
        cleared == [up EXCEPT !.visited = {}]
    IN  traverse(startNodeId, "downstream", cleared, es)

getFlowPath(startNodeId, es) == getFlowPathRun(startNodeId, es).path

(***************************************************************************)
(* Manual layered strategy, lines 434-673.                                 *)
(***************************************************************************)
padding == 50

itemHeight == 80

itemWidth == 160

colSpacing == 220

\* new Set(interfaces.map(iface => iface.controller || iface.master).filter(Boolean))
controllerNames(ifs) ==
    { Or(ifs[k].controller, ifs[k].master) : k \in 1..Len(ifs) } \ {""}

isBridge(iface, ifs) ==
    \/ iface.type \in BridgeTypes
    \/ iface.type = "ovs-interface" /\ iface.name \in controllerNames(ifs) /\ ~iface.patch

ethInterfaces(ifs) == LET T(i) == i.type = "ethernet" IN SelectSeq(ifs, T)

bondInterfaces(ifs) == LET T(i) == i.type = "bond" IN SelectSeq(ifs, T)

bridgeInterfaces(ifs) == LET T(i) == isBridge(i, ifs) IN SelectSeq(ifs, T)

logicalInterfaces(ifs) ==
    LET T(i) == i.type = "ovs-interface" /\ ~isBridge(i, ifs) IN SelectSeq(ifs, T)

otherInterfaces(ifs) ==
    LET T(i) == i.type \notin {"ethernet", "bond"} /\ ~isBridge(i, ifs)
                /\ i.type # "ovs-interface"
    IN  SelectSeq(ifs, T)

\* The assignments nodePositions[id] = {x, y} of one column, in order.
ColumnAssignments(ids, column) ==
    [k \in 1..Len(ids) |->
        [id |-> ids[k], x |-> padding + colSpacing * column,
         y |-> padding + (k - 1) * (itemHeight + 20)]]

NamesOf(ifs) == [k \in 1..Len(ifs) |-> ifs[k].name]

\* All assignments to nodePositions in program order (lines 471-495).
PositionAssignments(ifs, mappings, cs) ==
    ColumnAssignments(NamesOf(ethInterfaces(ifs)), 0)
    \o ColumnAssignments(NamesOf(bondInterfaces(ifs)), 1)
    \o ColumnAssignments(NamesOf(bridgeInterfaces(ifs)), 2)
    \o ColumnAssignments(NamesOf(logicalInterfaces(ifs)), 3)
    \o ColumnAssignments([k \in 1..Len(mappings) |-> "ovn-" \o mappings[k].localnet], 4)
    \o ColumnAssignments([k \in 1..Len(cs) |-> "cudn-" \o cs[k].name], 5)

Max(S) == CHOOSE x \in S : \A y \in S : x >= y

\* The object nodePositions: the last assignment to a key wins.
nodePositions(ifs, mappings, cs) ==
    LET assigned == PositionAssignments(ifs, mappings, cs)
        keys == { assigned[k].id : k \in 1..Len(assigned) }
    IN  [id \in keys |->
            LET last == assigned[Max({ k \in 1..Len(assigned) : assigned[k].id = id })]
            IN  [x |-> last.x, y |-> last.y]]

\* renderConnector: a line from startNode to endNode, or null (<<>>) when either
\* has no position.
renderConnector(startNode, endNode, positions) ==
    IF startNode \notin DOMAIN positions \/ endNode \notin DOMAIN positions THEN <<>>
    ELSE << [start |-> startNode, end |-> endNode] >>

RECURSIVE Flatten(_)
Flatten(ss) == IF ss = <<>> THEN <<>> ELSE Head(ss) \o Flatten(Tail(ss))

\* Lines 601-607.
InterfaceConnectors(ifs, positions) ==
    Flatten([k \in 1..Len(ifs) |->
        LET master == Or(ifs[k].controller, ifs[k].master)
        IN  IF Truthy(master) /\ master \in DOMAIN positions
            THEN renderConnector(ifs[k].name, master, positions) ELSE <<>>])

\* Lines 608-613.
MappingConnectors(mappings, positions) ==
    Flatten([k \in 1..Len(mappings) |->
        IF Truthy(mappings[k].bridge) /\ mappings[k].bridge \in DOMAIN positions
        THEN renderConnector(mappings[k].bridge, "ovn-" \o mappings[k].localnet, positions)
        ELSE <<>>])

\* Lines 614-622: drawn from the CUDN to the OVN mapping.
CudnConnectors(cs, positions) ==
    Flatten([k \in 1..Len(cs) |->
        LET physicalNetworkName == PhysicalNetworkNameOf(cs[k])
        IN  IF Truthy(physicalNetworkName)
               /\ ("ovn-" \o physicalNetworkName) \in DOMAIN positions
            THEN renderConnector("cudn-" \o cs[k].name, "ovn-" \o physicalNetworkName,
                                 positions)
            ELSE <<>>])

\* Math.max over the group sizes (lines 498-506); Math.ceil(n / 4) is (n + 3) \div 4.
maxRows(ifs, mappings, cs) ==
    Max({ Len(ethInterfaces(ifs)), Len(bondInterfaces(ifs)), Len(bridgeInterfaces(ifs)),
          Len(logicalInterfaces(ifs)), Len(mappings), Len(cs),
          ((Len(otherInterfaces(ifs)) + 3) \div 4) + 2 })

\* Line 507.
calculatedHeight(ifs, mappings, cs) ==
    Max({ 600, padding + (maxRows(ifs, mappings, cs) * (itemHeight + 20)) + 200 })

\* The 'Other Interfaces' grid (lines 661-668): four nodes per row inside a group
\* translated by (padding, calculatedHeight - 140); x and y are the node's
\* coordinates in the svg.
OtherBoxes(ifs, mappings, cs) ==
    LET others == otherInterfaces(ifs)
    IN  [k \in 1..Len(others) |->
            LET index == k - 1
                col == index % 4
                row == index \div 4
            IN  [name |-> others[k].name,
                 x |-> padding + col * (itemWidth + 20),
                 y |-> (calculatedHeight(ifs, mappings, cs) - 140) + row * (itemHeight + 20)]]

NoSvg == [drawn |-> FALSE, nodePositions |-> <<>>, connectors |-> <<>>,
          calculatedHeight |-> 0, others |-> <<>>]

\* The manual component's render: the early return at lines 578-587, else the
\* svg of lines 589-672.
ManualRender(ifs, mappings, cs) ==
    IF Len(ifs) = 0 THEN NoSvg
    ELSE LET positions == nodePositions(ifs, mappings, cs)
         IN  [drawn |-> TRUE, nodePositions |-> positions,
              connectors |-> InterfaceConnectors(ifs, positions)
                             \o MappingConnectors(mappings, positions)
                             \o CudnConnectors(cs, positions),
              calculatedHeight |-> calculatedHeight(ifs, mappings, cs),
              others |-> OtherBoxes(ifs, mappings, cs)]

(***************************************************************************)
(* React state and scheduling.                                             *)
(***************************************************************************)
Null == [kind |-> "null"]

NoAnchor == ""

NoId == ""

\* A reference compared by Object.is in the dependency array.  An array literal
\* created during render (`cudns = []`, `|| []`) is a fresh reference, equal to
\* no reference of an earlier render.
Ref(id) == [fresh |-> FALSE, id |-> id]

Fresh == [fresh |-> TRUE, id |-> 0]

SameRef(a, b) == ~a.fresh /\ ~b.fresh /\ a.id = b.id

NoDeps == [mounted |-> FALSE, nns |-> Fresh, cudns |-> Fresh, bridgeMappings |-> Fresh]

\* [nns, cudns, bridgeMappings] of the current render (line 260).  bridgeMappings
\* is the array inside nns when nns has one, else a new [] (line 148); cudns is
\* the prop when given, else a new [] (line 136).
CurrentDeps ==
    [mounted |-> TRUE,
     nns |-> Ref(props.nns.id),
     cudns |-> IF props.cudns.given THEN Ref(props.cudns.id) ELSE Fresh,
     bridgeMappings |-> IF props.nns.hasMappings THEN Ref(props.nns.id) ELSE Fresh]

\* React's areHookInputsEqual on the previous and the current dependency array.
DepsChanged(prev, cur) ==
    \/ ~prev.mounted
    \/ ~SameRef(prev.nns, cur.nns)
    \/ ~SameRef(prev.cudns, cur.cudns)
    \/ ~SameRef(prev.bridgeMappings, cur.bridgeMappings)

selection == <<activeNode, anchorElement, highlightedPath, isHighlightActive, selectedId>>

harness == <<flowStart, flowResult, flowEntered>>

\* A render of the React Flow component (lines 136-148, 302-323): the effect is
\* scheduled when a dependency changed.  Pending passive effects are flushed
\* before the next render, hence the guard.
Render ==
    /\ strategy = "reactflow"
    /\ renderPending /\ ~effectPending
    /\ renderPending' = FALSE
    /\ effectPending' = DepsChanged(lastDeps, CurrentDeps)
    /\ lastDeps' = CurrentDeps
    /\ shown' = (Len(interfaces) > 0)
    /\ UNCHANGED <<strategy, props, nodes, edges, selection, dirty, propChanges, svg, harness>>

\* A variant of the effect that commits the nodes of a build without its edges.
RunEffectNodesOnly ==
    /\ strategy = "reactflow"
    /\ effectPending
    /\ LET g == BuildGraph(interfaces, bridgeMappings, cudns)
           layouted == getLayoutedElements(g.nodes, g.edges)
       IN  /\ nodes' = layouted.nodes
           /\ edges' = edges
    /\ effectPending' = FALSE
    /\ renderPending' = TRUE
    /\ dirty' = FALSE
    /\ UNCHANGED <<strategy, props, lastDeps, shown, selection, propChanges, svg, harness>>

\* The effect (lines 150-260): build, lay out, setNodes, setEdges.  Both setters
\* receive new arrays, so a render is scheduled.
RunEffect ==
    /\ strategy = "reactflow"
    /\ effectPending
    /\ LET g == BuildGraph(interfaces, bridgeMappings, cudns)
           layouted == getLayoutedElements(g.nodes, g.edges)
       IN  /\ nodes' = layouted.nodes
           /\ edges' = layouted.edges
    /\ effectPending' = FALSE
    /\ renderPending' = TRUE
    /\ dirty' = FALSE
    /\ UNCHANGED <<strategy, props, lastDeps, shown, selection, propChanges, svg, harness>>

\* node.data.original || { name: node.data.label, type: ..., ...node.data }
\* (lines 349-353); node.type is always 'default', so the type is 'unknown'.
OriginalData(node) ==
    IF node.original # NoOriginal THEN node.original
    ELSE [name |-> node.label, type |-> "unknown", label |-> node.label,
          namespaces |-> node.namespaces]

\* A variant of onNodeClick that opens the popover without switching
\* highlight-mode on.
NodeClickWithoutHighlight(k) ==
    /\ strategy = "reactflow"
    /\ shown
    /\ k \in 1..Len(nodes)
    /\ anchorElement' = nodes[k].id
    /\ activeNode' = OriginalData(nodes[k])
    /\ highlightedPath' = getFlowPath(nodes[k].id, edges)
    /\ selectedId' = nodes[k].id
    /\ renderPending' = TRUE
    /\ UNCHANGED <<strategy, props, lastDeps, effectPending, shown, nodes, edges, dirty,
                   propChanges, svg, harness, isHighlightActive>>

\* onNodeClick (lines 347-363) on the k-th rendered node.
NodeClick(k) ==
    /\ strategy = "reactflow"
    /\ shown
    /\ k \in 1..Len(nodes)
    /\ anchorElement' = nodes[k].id
    /\ activeNode' = OriginalData(nodes[k])
    /\ highlightedPath' = getFlowPath(nodes[k].id, edges)
    /\ isHighlightActive' = TRUE
    /\ selectedId' = nodes[k].id
    /\ renderPending' = TRUE
    /\ UNCHANGED <<strategy, props, lastDeps, effectPending, shown, nodes, edges, dirty,
                   propChanges, svg, harness>>

\* handlePopoverClose (lines 291-294).
handlePopoverClose ==
    /\ activeNode' = Null
    /\ anchorElement' = NoAnchor

\* The Popover's shouldClose (line 376); the popover is visible while activeNode
\* is set (line 375).
PopoverClose ==
    /\ strategy = "reactflow"
    /\ shown
    /\ activeNode # Null
    /\ handlePopoverClose
    /\ renderPending' = TRUE
    /\ UNCHANGED <<strategy, props, lastDeps, effectPending, shown, nodes, edges,
                   highlightedPath, isHighlightActive, selectedId, dirty, propChanges, svg,
                   harness>>

\* A variant of handleBackgroundClick that forgets to close the popover.
handleBackgroundClickKeepsPopover ==
    /\ isHighlightActive' = FALSE
    /\ highlightedPath' = {}
    /\ UNCHANGED <<activeNode, anchorElement>>

\* A variant of handleBackgroundClick that switches highlight-mode off and
\* leaves the highlight set as it is.
handleBackgroundClickKeepsPath ==
    /\ isHighlightActive' = FALSE
    /\ highlightedPath' = highlightedPath
    /\ handlePopoverClose

\* handleBackgroundClick (lines 296-300).
handleBackgroundClick ==
    /\ isHighlightActive' = FALSE
    /\ highlightedPath' = {}
    /\ handlePopoverClose

\* onPaneClick (line 364).  setHighlightedPath receives a new Set, so a render
\* is scheduled.
BackgroundClick ==
    /\ strategy = "reactflow"
    /\ shown
    /\ handleBackgroundClick
    /\ renderPending' = TRUE
    /\ UNCHANGED <<strategy, props, lastDeps, effectPending, shown, nodes, edges, selectedId,
                   dirty, propChanges, svg, harness>>

\* A direct call of getFlowPath on the committed graph with any id.
IdUniverse == IfaceNames \cup {"ghost"}

GetFlowPathCall(startNodeId) ==
    /\ strategy = "reactflow"
    /\ lastDeps.mounted /\ ~renderPending /\ ~effectPending
    /\ flowStart' = startNodeId
    /\ flowResult' = getFlowPath(startNodeId, edges)
    /\ flowEntered' = getFlowPathRun(startNodeId, edges).entered
    /\ UNCHANGED <<strategy, props, lastDeps, renderPending, effectPending, shown, nodes,
                   edges, selection, dirty, propChanges, svg>>

\* A render of the manual layered component (lines 434-673); it has no state.
RenderManual ==
    /\ strategy = "manual"
    /\ renderPending
    /\ svg' = ManualRender(interfaces, bridgeMappings, cudns)
    /\ renderPending' = FALSE
    /\ UNCHANGED <<strategy, props, lastDeps, effectPending, shown, nodes, edges, selection,
                   dirty, propChanges, harness>>

(***************************************************************************)
(* Props.                                                                  *)
(***************************************************************************)
\* nns with or without ovn['bridge-mappings'].
NnsValue(ifs, hasMappings, mappings) ==
    [interfaces |-> ifs, hasMappings |-> hasMappings, mappings |-> mappings]

CudnsValue(given, items) == [given |-> given, items |-> items]

WithId(value, id) == [id |-> id] @@ value

NnsValues(ifLists, mapLists) ==
    { NnsValue(ifs, TRUE, ms) : ifs \in ifLists, ms \in mapLists }
    \cup { NnsValue(ifs, FALSE, <<>>) : ifs \in ifLists }

CudnsValues(cudnLists) ==
    { CudnsValue(TRUE, cs) : cs \in cudnLists } \cup { CudnsValue(FALSE, <<>>) }

\* The state right after construction, before the first render.
Mounted(strategies, nnsValues, cudnsValues) ==
    /\ strategy \in strategies
    /\ props \in { [nns |-> WithId(n, 0), cudns |-> WithId(c, 0)] :
                      n \in nnsValues, c \in cudnsValues }
    /\ lastDeps = NoDeps
    /\ renderPending = TRUE
    /\ effectPending = FALSE
    /\ shown = FALSE
    /\ nodes = <<>>
    /\ edges = <<>>
    /\ activeNode = Null
    /\ anchorElement = NoAnchor
    /\ highlightedPath = {}
    /\ isHighlightActive = FALSE
    /\ selectedId = NoId
    /\ dirty = TRUE
    /\ propChanges = 0
    /\ svg = NoSvg
    /\ flowStart = NoId
    /\ flowResult = {}
    /\ flowEntered = <<>>

\* The parent passes a new nns object (a watch update).  A pending effect is
\* flushed before the render this schedules and reads the values of the render
\* that scheduled it, so the change is taken after that flush.
NnsChange(n) ==
    /\ strategy = "reactflow"
    /\ propChanges < MaxPropChanges
    /\ ~effectPending
    /\ props' = [props EXCEPT !.nns = WithId(n, props.nns.id + 1)]
    /\ renderPending' = TRUE
    /\ dirty' = TRUE
    /\ propChanges' = propChanges + 1
    /\ UNCHANGED <<strategy, lastDeps, effectPending, shown, nodes, edges, selection, svg,
                   harness>>

\* The parent passes a new cudns array, or stops passing one.
CudnsChange(c) ==
    /\ strategy = "reactflow"
    /\ propChanges < MaxPropChanges
    /\ ~effectPending
    /\ props' = [props EXCEPT !.cudns = WithId(c, props.cudns.id + 1)]
    /\ renderPending' = TRUE
    /\ dirty' = TRUE
    /\ propChanges' = propChanges + 1
    /\ UNCHANGED <<strategy, lastDeps, effectPending, shown, nodes, edges, selection, svg,
                   harness>>

(***************************************************************************)
(* SpecBuild: the builder, the manual render and getFlowPath applied to    *)
(* every input of the bounded universe; the props never change.            *)
(***************************************************************************)
\* nns always carries ovn['bridge-mappings'] and cudns is always passed.
BuildNnsValues(maxIfaces, maxMappings) ==
    { n \in NnsValues(InterfaceLists(maxIfaces), MappingLists(maxMappings)) : n.hasMappings }

BuildCudnsValues(maxCudns) == { c \in CudnsValues(CudnLists(maxCudns)) : c.given }

BuildInputsOk ==
    Len(props.nns.interfaces) + Len(props.nns.mappings) + Len(props.cudns.items) <= MaxRecords

InitBuild ==
    /\ Mounted({"reactflow", "manual"}, BuildNnsValues(MaxIfaces, MaxMappings),
               BuildCudnsValues(MaxCudns))
    /\ BuildInputsOk

NextBuild ==
    \/ Render
    \/ RunEffect
    \/ RenderManual
    \/ \E id \in IdUniverse : GetFlowPathCall(id)

SpecBuild == InitBuild /\ [][NextBuild]_vars

(***************************************************************************)
(* Vocabulary of the properties.                                           *)
(***************************************************************************)
NodeIds(ns) == { ns[k].id : k \in 1..Len(ns) }

EdgePairs(es) == { <<es[k].source, es[k].target>> : k \in 1..Len(es) }

\* The committed graph is the one built from the current props.
Built == strategy = "reactflow" /\ ~dirty

\* Ids reachable from the ids of S along the pairs, S included.
RECURSIVE Closure(_, _)
Closure(S, pairs) ==
    LET next == S \cup { p[2] : p \in { q \in pairs : q[1] \in S } }
    IN  IF next = S THEN S ELSE Closure(next, pairs)

Reverse(pairs) == { <<p[2], p[1]>> : p \in pairs }

Downstream(x, es) == Closure({x}, EdgePairs(es))

Upstream(x, es) == Closure({x}, Reverse(EdgePairs(es)))

InterfaceNamesOf(ifs) == { ifs[k].name : k \in 1..Len(ifs) }

\* Some interface other than the k-th names the k-th as controller or master.
HasChild(k, ifs) ==
    \E j \in 1..Len(ifs) :
        j # k /\ (ifs[j].controller = ifs[k].name \/ ifs[j].master = ifs[k].name)

\* The CUDNs whose physicalNetworkName is the localnet of a bridge mapping.
MatchedCudns ==
    { c \in { cudns[k] : k \in 1..Len(cudns) } :
        \E k \in 1..Len(bridgeMappings) :
            bridgeMappings[k].localnet = PhysicalNetworkNameOf(c) }

\* The (start, end) pairs of the connectors drawn by the manual layout.
ConnectorPairs(connectors) ==
    { <<connectors[k].start, connectors[k].end>> : k \in 1..Len(connectors) }

(***************************************************************************)
(* C1: after the builder ran, every edge's source and target are ids of    *)
(* nodes of the node collection (no dangling edge is created).             *)
(***************************************************************************)
C1_EdgesResolve ==
    Built => \A k \in 1..Len(edges) :
                /\ edges[k].source \in NodeIds(nodes)
                /\ edges[k].target \in NodeIds(nodes)

(***************************************************************************)
(* C2: every bridge mapping has its node ovn-<localnet>, and the edge       *)
(* <bridge> -> ovn-<localnet> exists iff mapping.bridge is the name of an   *)
(* interface of the collection.                                            *)
(***************************************************************************)
C2_MappingEdgeIffBridgeExists ==
    Built => \A k \in 1..Len(bridgeMappings) :
                LET mapping == bridgeMappings[k]
                    ovnNodeId == "ovn-" \o mapping.localnet
                IN  /\ ovnNodeId \in NodeIds(nodes)
                    /\ (<<mapping.bridge, ovnNodeId>> \in EdgePairs(edges))
                          <=> (mapping.bridge \in InterfaceNamesOf(interfaces))

(***************************************************************************)
(* C3: no two nodes of the produced node collection share an id.           *)
(***************************************************************************)
C3_NodeIdsUnique ==
    Built => \A i, j \in 1..Len(nodes) : nodes[i].id = nodes[j].id => i = j

(***************************************************************************)
(* C4: every edge id occurs at most once in the produced edge collection.  *)
(***************************************************************************)
C4_EdgeIdsUnique ==
    Built => \A i, j \in 1..Len(edges) : edges[i].id = edges[j].id => i = j

(***************************************************************************)
(* C5: an ovs-interface is classified bridge iff some OTHER interface      *)
(* names it as controller or master and it has no patch; otherwise it is   *)
(* classified logical.                                                     *)
(***************************************************************************)
C5_OvsInterfaceBridgeIffChild ==
    Built => \A k \in 1..Len(interfaces) :
                interfaces[k].type = "ovs-interface" =>
                    /\ nodes[k].id = interfaces[k].name
                    /\ nodes[k].type =
                          (IF HasChild(k, interfaces) /\ ~interfaces[k].patch
                           THEN "bridge" ELSE "logical")

(***************************************************************************)
(* C6: for every CUDN whose physicalNetworkName is the localnet of a       *)
(* bridge mapping, the connection is directed ovn-<localnet> ->            *)
(* cudn-<name>, in the React Flow graph and in the manual layout's         *)
(* connectors alike.                                                       *)
(***************************************************************************)
C6_CudnEdgeFromOvnToCudn ==
    \A c \in MatchedCudns :
        LET ovnNodeId == "ovn-" \o PhysicalNetworkNameOf(c)
            cudnNodeId == "cudn-" \o c.name
        IN  /\ Built => /\ <<ovnNodeId, cudnNodeId>> \in EdgePairs(edges)
                        /\ <<cudnNodeId, ovnNodeId>> \notin EdgePairs(edges)
            /\ svg.drawn => /\ <<ovnNodeId, cudnNodeId>> \in ConnectorPairs(svg.connectors)
                            /\ <<cudnNodeId, ovnNodeId>> \notin ConnectorPairs(svg.connectors)

(***************************************************************************)
(* C7: for a node x of the graph, getFlowPath(x) contains a node id y of   *)
(* the graph iff there is a directed path from x to y or from y to x.      *)
(***************************************************************************)
C7_FlowPathIsReachability ==
    (flowStart # NoId /\ flowStart \in NodeIds(nodes)) =>
        \A y \in NodeIds(nodes) :
            (y \in flowResult) <=>
                (y \in Downstream(flowStart, edges) \/ y \in Upstream(flowStart, edges))

(***************************************************************************)
(* C8: getFlowPath of an id that is no node of the current graph returns   *)
(* the empty set.                                                          *)
(***************************************************************************)
C8_UnknownStartGivesEmptySet ==
    (flowStart # NoId /\ flowStart \notin NodeIds(nodes)) => flowResult = {}

(***************************************************************************)
(* Spec: the mounted React Flow component under props changes, renders,    *)
(* effect runs and user events.                                            *)
(***************************************************************************)
EthA == [name |-> "a", type |-> "ethernet", controller |-> "ovn", master |-> "",
         patch |-> FALSE, vlanBase |-> "", macVlanBase |-> ""]

BridgeOvn == [name |-> "ovn", type |-> "ovs-bridge", controller |-> "", master |-> "",
              patch |-> FALSE, vlanBase |-> "", macVlanBase |-> ""]

MappingA == [localnet |-> "a", bridge |-> "ovn"]

CudnA == [name |-> "a", localNetName |-> "a", localnetName |-> "", conditions |-> NoConditions]

LifeNnsValues ==
    { NnsValue(ifs, TRUE, << MappingA >>) : ifs \in { <<>>, << EthA >>, << EthA, BridgeOvn >> } }
    \cup { NnsValue(ifs, FALSE, <<>>) : ifs \in { <<>>, << EthA >>, << EthA, BridgeOvn >> } }

LifeCudnsValues == CudnsValues({ <<>>, << CudnA >> })

Init == Mounted({"reactflow"}, LifeNnsValues, LifeCudnsValues)

Next ==
    \/ \E n \in LifeNnsValues : NnsChange(n)
    \/ \E c \in LifeCudnsValues : CudnsChange(c)
    \/ Render
    \/ RunEffect
    \/ \E k \in 1..Len(nodes) : NodeClick(k)
    \/ PopoverClose
    \/ BackgroundClick

Spec == Init /\ [][Next]_vars

(***************************************************************************)
(* C9: the graph recompute is triggered exactly once per change of the     *)
(* input collections: an effect run is scheduled only when an input        *)
(* changed since the last run, so for fixed props the render/effect cycle  *)
(* comes to rest.                                                          *)
(***************************************************************************)
C9_RecomputeOnlyOnInputChange == effectPending => dirty

(***************************************************************************)
(* C10: a background click leaves the highlight set empty, highlight-mode  *)
(* inactive and no active popover node, and leaves the nodes (with their   *)
(* positions) and the edges unchanged.                                     *)
(***************************************************************************)
C10_BackgroundClickClears ==
    [][BackgroundClick =>
          /\ highlightedPath' = {}
          /\ isHighlightActive' = FALSE
          /\ activeNode' = Null
          /\ nodes' = nodes
          /\ edges' = edges]_vars

\* A node was clicked and a later background click cleared the selection.
C10_Witness ==
    /\ selectedId # NoId
    /\ ~isHighlightActive
    /\ highlightedPath = {}
    /\ activeNode = Null
    /\ nodes # <<>>

(***************************************************************************)
(* C11: under both layout strategies every node of the graph has a         *)
(* position: every interface of any type, every ovn-mapping and every CUDN *)
(* has an entry in the position map of the manual layout, and every node   *)
(* of the React Flow graph, attachment nodes included, carries the         *)
(* position the dagre layout gave it.                                      *)
(***************************************************************************)
C11_EveryNodePositioned ==
    /\ Built => \A k \in 1..Len(nodes) : nodes[k].position = "dagre"
    /\ svg.drawn =>
          /\ \A k \in 1..Len(interfaces) :
                interfaces[k].name \in DOMAIN svg.nodePositions
          /\ \A k \in 1..Len(bridgeMappings) :
                ("ovn-" \o bridgeMappings[k].localnet) \in DOMAIN svg.nodePositions
          /\ \A k \in 1..Len(cudns) :
                ("cudn-" \o cudns[k].name) \in DOMAIN svg.nodePositions

(***************************************************************************)
(* SpecAttach: the builder applied to one CUDN whose status conditions     *)
(* carry every message of the bounded alphabet.                            *)
(***************************************************************************)
MaxMsgLen == 3

MsgChars == {"[", "]", ",", " ", "a"}

Messages(max) == SeqsUpTo(MsgChars, max)

AttachConditions(max) ==
    { NoConditions }
    \cup { << [type |-> "NetworkCreated", status |-> s, message |-> m] >> :
              s \in {"True", "False"}, m \in Messages(max) }

AttachCudnLists(max) ==
    { << [name |-> "a", localNetName |-> "", localnetName |-> "", conditions |-> c] >> :
         c \in AttachConditions(max) }

InitAttach ==
    Mounted({"reactflow"}, { NnsValue(<< EthA >>, TRUE, <<>>) },
            { CudnsValue(TRUE, cs) : cs \in AttachCudnLists(MaxMsgLen) })

NextAttach ==
    \/ Render
    \/ RunEffect

SpecAttach == InitAttach /\ [][NextAttach]_vars

\* The non-empty names a message lists between its first bracket pair.
ListedNames(msg) ==
    LET match == MatchBracket(msg)
        pieces == Split(match.group)
    IN  IF ~match.found THEN {}
        ELSE { Trim(pieces[k]) : k \in 1..Len(pieces) } \ { <<>> }

(***************************************************************************)
(* C12: for every CUDN, no attachment node and no cudn -> attachment edge  *)
(* is created when the NetworkCreated/True condition is missing, has no    *)
(* message, has a message without a bracketed list, or has a bracketed     *)
(* list that names nothing ("[]", "[ ]", only commas); and every           *)
(* attachment node has a non-empty namespace list without an empty name.   *)
(***************************************************************************)
C12_NoAttachmentForEmptyList ==
    Built =>
        /\ \A k \in 1..Len(cudns) :
              LET condition == FindCondition(cudns[k].conditions)
                  attachmentNodeId == "attachment-" \o cudns[k].name
              IN  (~condition.found \/ ListedNames(condition.message) = {}) =>
                      /\ attachmentNodeId \notin NodeIds(nodes)
                      /\ \A e \in 1..Len(edges) : edges[e].target # attachmentNodeId
        /\ \A k \in 1..Len(nodes) :
              nodes[k].type = "attachment" =>
                  /\ Len(nodes[k].namespaces) > 0
                  /\ \A j \in 1..Len(nodes[k].namespaces) : nodes[k].namespaces[j] # ""

\* The layouted graphs of all inputs the lifecycle can pass.
LifeBuilds ==
    { LET g == BuildGraph(n.interfaces, IF n.hasMappings THEN n.mappings ELSE <<>>,
                          IF c.given THEN c.items ELSE <<>>)
      IN  getLayoutedElements(g.nodes, g.edges) :
          n \in LifeNnsValues, c \in LifeCudnsValues }

(***************************************************************************)
(* C13: a recompute replaces the node collection and the edge collection   *)
(* together: in every state the renderer or getFlowPath can observe, the   *)
(* nodes and the edges are those of one and the same build (or both are    *)
(* still the empty collections of the mount).                              *)
(***************************************************************************)
C13_NodesAndEdgesOfOneBuild ==
    \/ nodes = <<>> /\ edges = <<>>
    \/ \E g \in LifeBuilds : nodes = g.nodes /\ edges = g.edges

\* A recompute replaced a graph in which a node had been clicked by a graph
\* that no longer has that node and still has edges.
C13_Witness ==
    /\ ~dirty
    /\ propChanges > 0
    /\ selectedId # NoId
    /\ selectedId \notin NodeIds(nodes)
    /\ edges # <<>>

(***************************************************************************)
(* C14: after any sequence of node clicks, popover closes and background   *)
(* clicks, the active popover node is null if and only if highlight-mode   *)
(* is inactive (the selection state is either Idle or Selected).           *)
(***************************************************************************)
C14_PopoverNullIffHighlightInactive == (activeNode = Null) <=> ~isHighlightActive

(***************************************************************************)
(* C14, amended: the popover is open only while highlight-mode is active,  *)
(* and the popover's anchor is set exactly while its node is; the converse *)
(* fails, because closing the popover leaves highlight-mode active.        *)
(***************************************************************************)
C14_PopoverOnlyWhileHighlighted ==
    /\ ~isHighlightActive => activeNode = Null
    /\ (activeNode = Null) <=> (anchorElement = NoAnchor)

\* The popover of a clicked node was closed and the highlight stayed.
C14_Witness ==
    /\ isHighlightActive
    /\ activeNode = Null
    /\ selectedId \in highlightedPath

(***************************************************************************)
(* SpecFlow: getFlowPath called with every id on the graphs built from     *)
(* interface lists whose controller and base-iface references form        *)
(* chains, parallel edges, self-loops and directed cycles.                 *)
(***************************************************************************)
MaxFlowIfaces == 2

FlowIfaceUniverse ==
    { i \in IfaceUniverse : i.type \in {"ethernet", "vlan"} /\ i.master = "" }

FlowInterfaceLists(max) ==
    { ifs \in SeqsUpTo(FlowIfaceUniverse, max) : UniqueNames(ifs) }

InitFlow ==
    Mounted({"reactflow"},
            { NnsValue(ifs, TRUE, <<>>) : ifs \in FlowInterfaceLists(MaxFlowIfaces) },
            { CudnsValue(TRUE, <<>>) })

NextFlow ==
    \/ Render
    \/ RunEffect
    \/ \E id \in IdUniverse : GetFlowPathCall(id)

SpecFlow == InitFlow /\ [][NextFlow]_vars

(***************************************************************************)
(* C15: getFlowPath returns for every edge collection and every start      *)
(* node, directed cycles and self-loops included, and each of the upstream *)
(* and downstream traversals enters every node at most once.               *)
(***************************************************************************)
C15_TraversalEntersNodeOnce ==
    flowStart # NoId =>
        /\ \A i, j \in 1..Len(flowEntered) : flowEntered[i] = flowEntered[j] => i = j
        /\ <<"upstream", flowStart>> \in { flowEntered[i] : i \in 1..Len(flowEntered) }
        /\ <<"downstream", flowStart>> \in { flowEntered[i] : i \in 1..Len(flowEntered) }

\* getFlowPath returned for a start node that lies on a directed cycle of two
\* nodes, one of which also has a self-loop.
C15_Witness ==
    /\ flowStart # NoId
    /\ \E x \in NodeIds(nodes) :
          /\ x # flowStart
          /\ <<flowStart, x>> \in EdgePairs(edges)
          /\ <<x, flowStart>> \in EdgePairs(edges)
          /\ <<x, x>> \in EdgePairs(edges) \/ <<flowStart, flowStart>> \in EdgePairs(edges)
    /\ Len(flowEntered) = 4

(***************************************************************************)
(* C16: after any sequence of node clicks, popover closes, background      *)
(* clicks and graph recomputes, highlight-mode is active iff the highlight *)
(* set is non-empty, and while it is active the set contains the id of the *)
(* last clicked node.                                                      *)
(***************************************************************************)
C16_HighlightActiveIffSetNonEmpty ==
    /\ isHighlightActive <=> highlightedPath # {}
    /\ isHighlightActive => selectedId \in highlightedPath

\* Highlight-mode is still active after the popover was closed and a recompute
\* replaced the graph the node was clicked in.
C16_Witness ==
    /\ isHighlightActive
    /\ activeNode = Null
    /\ propChanges > 0
    /\ ~dirty
    /\ selectedId \in highlightedPath

\* The ids of the nodes and of the edges of a graph.
GraphIds(ns, es) == NodeIds(ns) \cup { es[k].id : k \in 1..Len(es) }

(***************************************************************************)
(* C17: every id in the highlight set is the id of a node or of an edge of *)
(* the current graph, also across a recompute: an effect run that starts   *)
(* with highlight-mode active and the highlight set within the graph ends  *)
(* with the highlight set within the new graph (a recompute that removes a *)
(* highlighted node or edge does not leave its id in the set).             *)
(***************************************************************************)
C17_RecomputeKeepsHighlightWithinGraph ==
    [][(/\ RunEffect
        /\ isHighlightActive
        /\ highlightedPath \subseteq GraphIds(nodes, edges))
          => highlightedPath' \subseteq GraphIds(nodes', edges')]_vars

(***************************************************************************)
(* SpecLayout: the manual layered component rendered on interface lists    *)
(* long enough to fill more than one row of the 'Other Interfaces' grid.   *)
(***************************************************************************)
MaxLayoutIfaces == 5

LayoutTypes == {"ethernet", "ovs-bridge", "vlan"}

\* The k-th interface of a list, of the given type, with a name of its own.
LayoutIface(k, type) ==
    [name |-> "if" \o ToString(k), type |-> type, controller |-> "", master |-> "",
     patch |-> FALSE, vlanBase |-> "", macVlanBase |-> ""]

LayoutInterfaceLists(max) ==
    UNION { { [k \in 1..n |-> LayoutIface(k, types[k])] : types \in [1..n -> LayoutTypes] } :
            n \in 0..max }

InitLayout ==
    Mounted({"manual"},
            { NnsValue(ifs, TRUE, ms) : ifs \in LayoutInterfaceLists(MaxLayoutIfaces),
                                        ms \in MappingLists(MaxMappings) },
            { CudnsValue(TRUE, <<>>) })

NextLayout == RenderManual

SpecLayout == InitLayout /\ [][NextLayout]_vars

(***************************************************************************)
(* C18: in the manual layered layout the whole box of every drawn node     *)
(* lies inside the canvas: its top is >= 0 and its top plus the item       *)
(* height is <= calculatedHeight, for the nodes of the six layer columns   *)
(* and for every node of the 'Other Interfaces' grid.                      *)
(***************************************************************************)
C18_BoxesInsideCanvas ==
    svg.drawn =>
        /\ \A id \in DOMAIN svg.nodePositions :
              /\ svg.nodePositions[id].y >= 0
              /\ svg.nodePositions[id].y + itemHeight <= svg.calculatedHeight
        /\ \A k \in 1..Len(svg.others) :
              /\ svg.others[k].y >= 0
              /\ svg.others[k].y + itemHeight <= svg.calculatedHeight

(***************************************************************************)
(* C19: the two strategies classify bridges identically: for every         *)
(* interface collection and every interface in it, the manual layout's     *)
(* isBridge is true exactly when the React Flow builder gave the           *)
(* interface's node the type 'bridge', also for collections in which an    *)
(* interface carries both a controller and a different master.             *)
(***************************************************************************)
C19_SameBridgeClassification ==
    Built => \A k \in 1..Len(interfaces) :
                /\ nodes[k].id = interfaces[k].name
                /\ (nodes[k].type = "bridge") <=> isBridge(interfaces[k], interfaces)

====
